---------------------------- MODULE Spec2Model ----------------------------
(***************************************************************************)
(* wimlib security-descriptor codec (src/src/security.c) and the image     *)
(* metadata reference counting declared in src/include/wimlib/metadata.h.  *)
(*                                                                         *)
(* Fixed-width integers keep their width.  A u32 is a sequence of two      *)
(* 16-bit limbs and a u64 a sequence of four, least significant limb       *)
(* first, because the model checker's own integers are narrower than the   *)
(* program's.  Buffers are sequences of bytes (0..255); get_u32/put_u32    *)
(* and get_u64/put_u64 convert between bytes and limbs.                    *)
(***************************************************************************)
EXTENDS Integers, Sequences, FiniteSets, TLC

\* ------------------------------------------------------------------ bounds

\* Largest num_entries field for which the input carries a sizes array.
MaxEntries == 2
\* Largest number of payload bytes following the sizes array in an input.
MaxPayload == 4
\* Largest reference count an export may produce.
MaxRefs == 3

\* ------------------------------------------------- fixed-width arithmetic

Limb == 256 * 256
Byte == 0..255

Zero32 == <<0, 0>>
Zero64 == <<0, 0, 0, 0>>
Max32  == <<Limb - 1, Limb - 1>>
Max64  == <<Limb - 1, Limb - 1, Limb - 1, Limb - 1>>

\* A natural number below 2^31 as a u32 / as a u64.
U32(n) == <<n % Limb, n \div Limb>>
U64(n) == <<n % Limb, n \div Limb, 0, 0>>

\* The cast (u64)x of a u32, and the cast (u32)x of a u64 (keeps the low
\* 32 bits).
ToU64(x) == x \o <<0, 0>>
ToU32(x) == SubSeq(x, 1, 2)

\* Ripple-carry addition of two limb sequences of one length; the result
\* has one more limb, the carry out.
RECURSIVE AddC(_, _, _)
AddC(a, b, c) ==
    IF a = <<>> THEN <<c>>
    ELSE LET s == Head(a) + Head(b) + c
         IN  <<s % Limb>> \o AddC(Tail(a), Tail(b), s \div Limb)

\* a + b in u64 arithmetic (wraps modulo 2^64), and whether it wrapped.
Add64(a, b)   == SubSeq(AddC(a, b, 0), 1, Len(a))
Carry64(a, b) == AddC(a, b, 0)[Len(a) + 1] = 1

\* a * m for a small m, in the width of a (wraps).
RECURSIVE MulC(_, _, _)
MulC(a, m, c) ==
    IF a = <<>> THEN <<>>
    ELSE LET q == Head(a) * m + c
         IN  <<q % Limb>> \o MulC(Tail(a), m, q \div Limb)

Mul(a, m) == MulC(a, m, 0)

\* a < b for two limb sequences of one length.
RECURSIVE Lt(_, _)
Lt(a, b) ==
    IF a = <<>> THEN FALSE
    ELSE LET n == Len(a)
         IN  IF a[n] # b[n] THEN a[n] < b[n]
             ELSE Lt(SubSeq(a, 1, n - 1), SubSeq(b, 1, n - 1))

Gt(a, b) == Lt(b, a)
Le(a, b) == ~Lt(b, a)

\* Whether a u64 is small enough to index a buffer of the model, and its
\* value then.
IsSmall(x) == x[2] = 0 /\ x[3] = 0 /\ x[4] = 0
ToNat(x)   == x[1]

\* The mathematical (unbounded) sum of a base and a sequence of u64 values,
\* as six limbs: no sum of the model's values reaches 2^96.
Wide(x) == x \o [k \in 1..(6 - Len(x)) |-> 0]

RECURSIVE MathSum(_, _)
MathSum(base, xs) ==
    IF xs = <<>> THEN Wide(base)
    ELSE SubSeq(AddC(MathSum(base, SubSeq(xs, 1, Len(xs) - 1)),
                     Wide(xs[Len(xs)]), 0), 1, 6)

\* ------------------------------------------------------------ byte access

\* put_u32 / put_u64: the little-endian bytes of a value.
RECURSIVE LimbsToBytes(_)
LimbsToBytes(v) ==
    IF v = <<>> THEN <<>>
    ELSE <<Head(v) % 256, Head(v) \div 256>> \o LimbsToBytes(Tail(v))

put_u32(v) == LimbsToBytes(v)
put_u64(v) == LimbsToBytes(v)

\* get_u32 / get_u64: the value of little-endian bytes read at offset off.
ByteAt(buf, off) == IF off + 1 \in DOMAIN buf THEN buf[off + 1] ELSE 0

get_limbs(buf, off, n) ==
    [k \in 1..n |-> ByteAt(buf, off + 2 * (k - 1))
                    + 256 * ByteAt(buf, off + 2 * (k - 1) + 1)]

get_u32(buf, off) == get_limbs(buf, off, 2)
get_u64(buf, off) == get_limbs(buf, off, 4)

\* get_bytes: n raw bytes read at offset off.
get_bytes(buf, off, n) == [k \in 1..n |-> ByteAt(buf, off + k - 1)]


\* ------------------------------------------------------------------ state

VARIABLES
    mode,                   \* "decode": an input buffer is decoded;
                            \* "roundtrip": a table is encoded, then decoded
    T,                      \* the table handed to encode in a round trip
    metadata_resource,      \* the input bytes of read_security_data
    metadata_resource_len,  \* their length, a u64
    pc,                     \* position of the running operation
    sd,                     \* the struct wim_security_data
    sizes_arr,              \* contents of the array sd->sizes points to
    desc_arr,               \* filled prefix of the array sd->descriptors
                            \* points to (CALLOC leaves the rest NULL)
    desc_bytes,             \* contents of the descriptor buffers
    p,                      \* read cursor, an offset into metadata_resource
    total_len,              \* the u64 accumulator of read_security_data
    i,                      \* loop index of read_security_data
    ret,                    \* return value of read_security_data
    sd_p,                   \* the caller's *sd_p
    heap,                   \* live blocks, and how often each was freed
    overflow_logged,        \* "Caught overflow" was reported
    refused,                \* the allocator refused a request it could serve
    oob,                    \* a read went past the end of the input
    out,                    \* bytes written by write_security_data
    asserted,               \* outcome of write_security_data's wimlib_assert
    imd,                    \* the struct wim_image_metadata
    ext_refs,               \* table references held outside imd
    nexport, nput, nrelease, \* calls made so far
    iter                    \* the last pass over imd.unhashed_streams

vars == <<mode, T, metadata_resource, metadata_resource_len, pc, sd,
          sizes_arr, desc_arr, desc_bytes, p, total_len, i, ret, sd_p, heap,
          overflow_logged, refused, oob, out, asserted, imd, ext_refs,
          nexport, nput, nrelease, iter>>

codec_vars == <<metadata_resource, metadata_resource_len, sizes_arr,
                desc_arr, desc_bytes, p, total_len, i, ret, sd_p,
                overflow_logged, refused, oob>>

meta_vars == <<imd, ext_refs, nexport, nput, nrelease, iter>>

\* ------------------------------------------------------------------- heap

NULL        == <<"NULL", 0>>
SdBlock     == <<"sd", 0>>
SizesBlock  == <<"sizes", 0>>
DescsBlock  == <<"descriptors", 0>>
DescBlock(k) == <<"descriptor", k>>
ImdBlock    == <<"imd", 0>>

Blocks == {SdBlock, SizesBlock, DescsBlock, ImdBlock}
              \cup {DescBlock(k) : k \in 0..MaxEntries}

EmptyHeap == [live |-> {}, nfree |-> [b \in Blocks |-> 0]]

\* A block of n bytes cannot exist next to the live input buffer of
\* metadata_resource_len bytes when n + metadata_resource_len reaches
\* 2^64 (the address space): no allocator can satisfy such a request, so
\* MALLOC returns NULL for it.  (With a 32-bit size_t the request is
\* truncated, and the same holds of the truncated request and 2^32 for
\* every size that wraps the accumulator.)  Any other request may be
\* granted or refused.
Satisfiable(n, len) == ~Carry64(n, len)

\* MALLOC(n): the block, or NULL when the allocator does not grant it.
MALLOC(block, n, len, grant) ==
    IF grant /\ Satisfiable(n, len) THEN block ELSE NULL

Allocated(h, ptr) ==
    IF ptr = NULL THEN h ELSE [h EXCEPT !.live = @ \cup {ptr}]

\* FREE(ptr): free(NULL) does nothing.
FREE(h, ptr) ==
    IF ptr = NULL THEN h
    ELSE [live |-> h.live \ {ptr},
          nfree |-> [h.nfree EXCEPT ![ptr] = @ + 1]]

RECURSIVE FreeEach(_, _)
FreeEach(h, ptrs) ==
    IF ptrs = <<>> THEN h ELSE FreeEach(FREE(h, Head(ptrs)), Tail(ptrs))


\* ------------------------------------------------------ security.c: free

\* free_security_data(sd): s is *sd, darr the descriptor pointers stored so
\* far in s.descriptors.  Yields the struct and the heap afterwards.
free_security_data_leaking_sizes(ptr, s, darr, h) ==
    IF ptr = NULL THEN [sd |-> s, heap |-> h]
    ELSE IF s.refcnt = 1
         THEN [sd |-> s,
               heap |-> FREE(FREE(IF s.descriptors # NULL
                                  THEN FreeEach(h, darr) ELSE h,
                                  s.descriptors), ptr)]
         ELSE [sd |-> [s EXCEPT !.refcnt = @ - 1], heap |-> h]

free_security_data_ignoring_refcnt(ptr, s, darr, h) ==
    IF ptr = NULL THEN [sd |-> s, heap |-> h]
    ELSE [sd |-> [s EXCEPT !.refcnt = @ - 1],
          heap |-> FREE(FREE(FREE(IF s.descriptors # NULL
                                  THEN FreeEach(h, darr) ELSE h,
                                  s.sizes), s.descriptors), ptr)]

free_security_data_leaking_descriptors(ptr, s, darr, h) ==
    IF ptr = NULL THEN [sd |-> s, heap |-> h]
    ELSE IF s.refcnt = 1
         THEN [sd |-> s,
               heap |-> FREE(FREE(FREE(h, s.sizes), s.descriptors), ptr)]
         ELSE [sd |-> [s EXCEPT !.refcnt = @ - 1], heap |-> h]

free_security_data(ptr, s, darr, h) ==
    IF ptr = NULL THEN [sd |-> s, heap |-> h]
    ELSE IF s.refcnt = 1
         THEN [sd |-> s,
               heap |-> FREE(FREE(FREE(IF s.descriptors # NULL
                                       THEN FreeEach(h, darr) ELSE h,
                                       s.sizes), s.descriptors), ptr)]
         ELSE [sd |-> [s EXCEPT !.refcnt = @ - 1], heap |-> h]

\* ------------------------------------------------------ security.c: read

NoSd == [total_length |-> Zero32, num_entries |-> Zero32,
         sizes |-> NULL, descriptors |-> NULL, refcnt |-> 0]

\* (u64)sd->total_length > metadata_resource_len
TotalLengthTooBig_off_by_header(total_length, len) ==
    Gt(ToU64(total_length), Add64(len, U64(8)))

TotalLengthTooBig_unchecked(total_length, len) == FALSE

TotalLengthTooBig(total_length, len) == Gt(ToU64(total_length), len)

\* u64 sizes_size = (u64)sd->num_entries * sizeof(u64)
SizesSize_32bit(num_entries) == ToU64(Mul(num_entries, 8))

SizesSize(num_entries) == Mul(ToU64(num_entries), 8)

\* u64 size_no_descriptors = 8 + sizes_size
SizeNoDescriptors(num_entries) == Add64(U64(8), SizesSize(num_entries))

\* total_len when there are no entries
NoEntriesTotalLen_as_stored(total_length) == ToU64(total_length)

NoEntriesTotalLen(total_length) == U64(8)

\* total_len += sd->sizes[i]
NextTotalLen_not_accumulating(acc, size) == acc

NextTotalLen(acc, size) == Add64(acc, size)

\* total_len > (u64)sd->total_length
TotalLenTooBig_unchecked(acc, total_length) == FALSE

TotalLenTooBig(acc, total_length) == Gt(acc, ToU64(total_length))

\* total_len + sd->sizes[i] < total_len
OverflowCaught(acc, size) == Lt(Add64(acc, size), acc)

\* The allocator refused a request it could have served.
Refusal(grant, n, len) == ~grant /\ Satisfiable(n, len)

\* The sizes array read by get_bytes and array_to_le64.
ReadSizes(buf, off, n) == [k \in 1..n |-> get_u64(buf, off + 8 * (k - 1))]

\* sd = MALLOC(sizeof(struct wim_security_data)) and the assignments
\* before the header is read.
AllocSd ==
    /\ pc = "malloc_sd"
    /\ \E grant \in BOOLEAN :
         IF grant
         THEN /\ sd' = [NoSd EXCEPT !.refcnt = 1]
              /\ heap' = Allocated(heap, SdBlock)
              /\ pc' = "header"
              /\ UNCHANGED <<ret, refused>>
         ELSE /\ ret' = "NOMEM"
              /\ refused' = TRUE
              /\ pc' = "fail"
              /\ UNCHANGED <<sd, heap>>
    /\ UNCHANGED <<mode, T, metadata_resource, metadata_resource_len,
                   sizes_arr, desc_arr, desc_bytes, p, total_len, i, sd_p,
                   overflow_logged, oob, out, asserted>>
    /\ UNCHANGED meta_vars

\* The header is read and checked.
ReadHeader ==
    /\ pc = "header"
    /\ LET total_length == get_u32(metadata_resource, 0)
           num_entries  == get_u32(metadata_resource, 4)
       IN  /\ sd' = [sd EXCEPT !.total_length = total_length,
                               !.num_entries = num_entries]
           /\ p' = 8
           /\ IF TotalLengthTooBig(total_length, metadata_resource_len)
              THEN /\ ret' = "INVALID_RESOURCE_SIZE"
                   /\ pc' = "out_free_sd"
                   /\ UNCHANGED total_len
              ELSE IF num_entries = Zero32
              THEN /\ total_len' = NoEntriesTotalLen(total_length)
                   /\ pc' = "out"
                   /\ UNCHANGED ret
              ELSE IF Gt(SizeNoDescriptors(num_entries), ToU64(total_length))
              THEN /\ ret' = "INVALID_RESOURCE_SIZE"
                   /\ pc' = "out_free_sd"
                   /\ UNCHANGED total_len
              ELSE /\ pc' = "malloc_sizes"
                   /\ UNCHANGED <<ret, total_len>>
    /\ UNCHANGED <<mode, T, metadata_resource, metadata_resource_len,
                   sizes_arr, desc_arr, desc_bytes, i, sd_p, heap,
                   overflow_logged, refused, oob, out, asserted>>
    /\ UNCHANGED meta_vars


\* A read of n bytes at cursor off stays inside the input buffer.
InBuffer(buf, off, n) == IsSmall(n) /\ off + ToNat(n) <= Len(buf)

\* sd->sizes = MALLOC(sizes_size), then the sizes array is copied in.
AllocSizes ==
    /\ pc = "malloc_sizes"
    /\ LET sizes_size == SizesSize(sd.num_entries)
       IN  \E grant \in BOOLEAN :
             LET ptr == MALLOC(SizesBlock, sizes_size,
                               metadata_resource_len, grant)
             IN  /\ refused' = (refused \/
                       Refusal(grant, sizes_size, metadata_resource_len))
                 /\ IF ptr = NULL
                    THEN /\ ret' = "NOMEM"
                         /\ pc' = "out_free_sd"
                         /\ UNCHANGED <<sd, heap, sizes_arr, p, oob>>
                    ELSE /\ sd' = [sd EXCEPT !.sizes = ptr]
                         /\ heap' = Allocated(heap, ptr)
                         /\ UNCHANGED ret
                         /\ IF InBuffer(metadata_resource, p, sizes_size)
                            THEN /\ sizes_arr' =
                                      ReadSizes(metadata_resource, p,
                                                ToNat(sizes_size) \div 8)
                                 /\ p' = p + ToNat(sizes_size)
                                 /\ pc' = "calloc_descriptors"
                                 /\ UNCHANGED oob
                            ELSE /\ oob' = TRUE
                                 /\ pc' = "crash"
                                 /\ UNCHANGED <<sizes_arr, p>>
    /\ UNCHANGED <<mode, T, metadata_resource, metadata_resource_len,
                   desc_arr, desc_bytes, total_len, i, sd_p,
                   overflow_logged, out, asserted>>
    /\ UNCHANGED meta_vars

\* sd->descriptors = CALLOC(sd->num_entries, sizeof(u8*)), and
\* total_len = size_no_descriptors.
AllocDescriptors ==
    /\ pc = "calloc_descriptors"
    /\ \E grant \in BOOLEAN :
         LET ptr == MALLOC(DescsBlock, SizesSize(sd.num_entries),
                           metadata_resource_len, grant)
         IN  /\ refused' = (refused \/
                   Refusal(grant, SizesSize(sd.num_entries),
                           metadata_resource_len))
             /\ IF ptr = NULL
                THEN /\ ret' = "NOMEM"
                     /\ pc' = "out_free_sd"
                     /\ UNCHANGED <<sd, heap, total_len, i>>
                ELSE /\ sd' = [sd EXCEPT !.descriptors = ptr]
                     /\ heap' = Allocated(heap, ptr)
                     /\ total_len' = SizeNoDescriptors(sd.num_entries)
                     /\ i' = 0
                     /\ pc' = "loop"
                     /\ UNCHANGED ret
    /\ UNCHANGED <<mode, T, metadata_resource, metadata_resource_len,
                   sizes_arr, desc_arr, desc_bytes, p, sd_p,
                   overflow_logged, oob, out, asserted>>
    /\ UNCHANGED meta_vars

\* One iteration of the descriptor loop, for i < sd->num_entries.
ReadDescriptor ==
    /\ pc = "loop"
    /\ Lt(U32(i), sd.num_entries)
    /\ IF i + 1 \notin DOMAIN sizes_arr
       THEN /\ oob' = TRUE
            /\ pc' = "crash"
            /\ UNCHANGED <<sd, desc_arr, desc_bytes, p, total_len, i, ret,
                           heap, overflow_logged, refused>>
       ELSE
       LET size == sizes_arr[i + 1]
           acc  == NextTotalLen(total_len, size)
       IN  /\ overflow_logged' =
                (overflow_logged \/ OverflowCaught(total_len, size))
           /\ total_len' = acc
           /\ IF TotalLenTooBig(acc, sd.total_length)
              THEN /\ ret' = "INVALID_RESOURCE_SIZE"
                   /\ pc' = "out_free_sd"
                   /\ UNCHANGED <<sd, desc_arr, desc_bytes, p, i, heap,
                                  refused, oob>>
              ELSE \E grant \in BOOLEAN :
                     LET ptr == MALLOC(DescBlock(i), size,
                                       metadata_resource_len, grant)
                     IN  /\ refused' = (refused \/
                               (~grant /\ Satisfiable(size,
                                              metadata_resource_len)))
                         /\ UNCHANGED sd
                         /\ IF ptr = NULL
                            THEN /\ ret' = "NOMEM"
                                 /\ pc' = "out_free_sd"
                                 /\ UNCHANGED <<desc_arr, desc_bytes, p, i,
                                                heap, oob>>
                            ELSE /\ desc_arr' = Append(desc_arr, ptr)
                                 /\ heap' = Allocated(heap, ptr)
                                 /\ UNCHANGED ret
                                 /\ IF InBuffer(metadata_resource, p, size)
                                    THEN /\ desc_bytes' = Append(desc_bytes,
                                              get_bytes(metadata_resource,
                                                        p, ToNat(size)))
                                         /\ p' = p + ToNat(size)
                                         /\ i' = i + 1
                                         /\ pc' = IF Lt(U32(i + 1),
                                                        sd.num_entries)
                                                  THEN "loop" ELSE "out"
                                         /\ UNCHANGED oob
                                    ELSE /\ oob' = TRUE
                                         /\ pc' = "crash"
                                         /\ UNCHANGED <<desc_bytes, p, i>>
    /\ UNCHANGED <<mode, T, metadata_resource, metadata_resource_len,
                   sizes_arr, sd_p, out, asserted>>
    /\ UNCHANGED meta_vars

\* out: the struct is completed and handed to the caller.
Out ==
    /\ pc = "out"
    /\ sd' = [sd EXCEPT !.total_length = ToU32(total_len)]
    /\ sd_p' = SdBlock
    /\ ret' = "OK"
    /\ pc' = "ok"
    /\ ext_refs' = ext_refs + 1
    /\ UNCHANGED <<mode, T, metadata_resource, metadata_resource_len,
                   sizes_arr, desc_arr, desc_bytes, p, total_len, i, heap,
                   overflow_logged, refused, oob, out, asserted>>
    /\ UNCHANGED <<imd, nexport, nput, nrelease, iter>>

\* out_free_sd: free_security_data(sd); return ret.
OutFreeSd ==
    /\ pc = "out_free_sd"
    /\ LET r == free_security_data(SdBlock, sd, desc_arr, heap)
       IN  /\ sd' = r.sd
           /\ heap' = r.heap
    /\ pc' = "fail"
    /\ UNCHANGED <<mode, T, metadata_resource, metadata_resource_len,
                   sizes_arr, desc_arr, desc_bytes, p, total_len, i, ret,
                   sd_p, overflow_logged, refused, oob, out, asserted>>
    /\ UNCHANGED meta_vars


\* ----------------------------------------------------- security.c: write

\* put_bytes(p, n, src): the first n bytes of src.
put_bytes(n, src) == [k \in 1..n |-> ByteAt(src, k - 1)]

RECURSIVE PutSizes(_)
PutSizes(sizes) ==
    IF sizes = <<>> THEN <<>>
    ELSE put_u64(Head(sizes)) \o PutSizes(Tail(sizes))

RECURSIVE PutDescriptors(_, _)
PutDescriptors_reversed(sizes, descriptors) ==
    IF sizes = <<>> THEN <<>>
    ELSE PutDescriptors(Tail(sizes), Tail(descriptors))
             \o put_bytes(ToNat(Head(sizes)), Head(descriptors))

PutDescriptors_dropping_last_byte(sizes, descriptors) ==
    IF sizes = <<>> THEN <<>>
    ELSE put_bytes(IF ToNat(Head(sizes)) > 0
                   THEN ToNat(Head(sizes)) - 1 ELSE 0, Head(descriptors))
             \o PutDescriptors(Tail(sizes), Tail(descriptors))

PutDescriptors(sizes, descriptors) ==
    IF sizes = <<>> THEN <<>>
    ELSE put_bytes(ToNat(Head(sizes)), Head(descriptors))
             \o PutDescriptors(Tail(sizes), Tail(descriptors))

\* The first sd->num_entries elements of an array.
Entries(num_entries, arr) ==
    IF IsSmall(ToU64(num_entries)) /\ ToNat(num_entries) <= Len(arr)
    THEN SubSeq(arr, 1, ToNat(num_entries)) ELSE arr

\* The bytes write_security_data writes for a table.
write_security_data(t) ==
    put_u32(t.total_length) \o put_u32(t.num_entries)
        \o PutSizes(Entries(t.num_entries, t.sizes))
        \o PutDescriptors(Entries(t.num_entries, t.sizes),
                          Entries(t.num_entries, t.descriptors))

\* wimlib_assert(p - orig_p == sd->total_length)
WrittenLengthAsserted(bytes, t) ==
    IF U32(Len(bytes)) = t.total_length THEN "pass" ELSE "fail"

\* The table a live struct wim_security_data holds.
Table == [total_length |-> sd.total_length,
          num_entries  |-> sd.num_entries,
          sizes        |-> sizes_arr,
          descriptors  |-> desc_bytes]

NoTable == [total_length |-> Zero32, num_entries |-> Zero32,
            sizes |-> <<>>, descriptors |-> <<>>]

WriteSecurityData ==
    /\ asserted = "none"
    /\ \/ /\ pc = "encode"
          /\ out' = write_security_data(T)
          /\ asserted' = WrittenLengthAsserted(write_security_data(T), T)
          /\ pc' = "encoded"
       \/ /\ pc = "ok"
          /\ SdBlock \in heap.live
          /\ out' = write_security_data(Table)
          /\ asserted' =
                WrittenLengthAsserted(write_security_data(Table), Table)
          /\ pc' = pc
    /\ UNCHANGED <<mode, T, sd, heap>>
    /\ UNCHANGED codec_vars
    /\ UNCHANGED meta_vars

\* The round trip: the bytes just written are decoded, with
\* length = T.total_length.
ReadBack ==
    /\ pc = "encoded"
    /\ metadata_resource' = out
    /\ metadata_resource_len' = ToU64(T.total_length)
    /\ pc' = "malloc_sd"
    /\ UNCHANGED <<mode, T, sd, sizes_arr, desc_arr, desc_bytes, p,
                   total_len, i, ret, sd_p, heap, overflow_logged, refused,
                   oob, out, asserted>>
    /\ UNCHANGED meta_vars


\* ------------------------------------------------- image metadata manager

NoImd == [refcnt |-> 0, root_dentry |-> FALSE, security_data |-> NULL,
          metadata_lte |-> FALSE, inode_list |-> <<>>,
          unhashed_streams |-> <<>>, modified |-> FALSE]

\* new_image_metadata(): refcnt = 1, empty lists, no root, no table.
NewImageMetadata ==
    /\ pc = "ok"
    /\ ImdBlock \notin heap.live
    /\ heap.nfree[ImdBlock] = 0
    /\ imd' = [NoImd EXCEPT !.refcnt = 1]
    /\ heap' = Allocated(heap, ImdBlock)
    /\ UNCHANGED <<mode, T, pc, sd, out, asserted, ext_refs, nexport, nput,
                   nrelease, iter>>
    /\ UNCHANGED codec_vars

\* The loaded image is attached: the decoded table, the root of the dentry
\* tree and the record of the metadata resource.
AttachMetadata ==
    /\ ImdBlock \in heap.live
    /\ imd.security_data = NULL
    /\ sd_p # NULL
    /\ ext_refs > 0
    /\ SdBlock \in heap.live
    /\ imd' = [imd EXCEPT !.security_data = sd_p, !.root_dentry = TRUE,
                          !.metadata_lte = TRUE]
    /\ ext_refs' = ext_refs - 1
    /\ UNCHANGED <<mode, T, pc, sd, heap, out, asserted, nexport, nput,
                   nrelease, iter>>
    /\ UNCHANGED codec_vars

\* Export to another archive handle: both reference counts are
\* incremented, nothing is copied.
ExportImage ==
    /\ ImdBlock \in heap.live
    /\ imd.security_data # NULL
    /\ nexport < MaxRefs - 1
    /\ imd' = [imd EXCEPT !.refcnt = @ + 1]
    /\ sd' = [sd EXCEPT !.refcnt = @ + 1]
    /\ ext_refs' = ext_refs + 1
    /\ nexport' = nexport + 1
    /\ UNCHANGED <<mode, T, pc, heap, out, asserted, nput, nrelease, iter>>
    /\ UNCHANGED codec_vars

\* destroy_image_metadata(imd, table, free_metadata_lte): the struct and
\* the heap afterwards.
destroy_image_metadata(m, s, darr, h, free_metadata_lte) ==
    LET r == free_security_data(m.security_data, s, darr, h)
    IN  [imd |-> [m EXCEPT !.root_dentry = FALSE,
                           !.security_data = NULL,
                           !.metadata_lte =
                               IF free_metadata_lte THEN FALSE ELSE @,
                           !.inode_list = <<>>,
                           !.unhashed_streams = <<>>],
         sd |-> r.sd, heap |-> r.heap]

PutImageMetadata_tearing_down_each_call ==
    /\ ImdBlock \in heap.live
    /\ imd.refcnt >= 1
    /\ nput' = nput + 1
    /\ LET r == destroy_image_metadata([imd EXCEPT !.refcnt = @ - 1], sd,
                                       desc_arr, heap, TRUE)
       IN  /\ imd' = r.imd
           /\ sd' = r.sd
           /\ heap' = IF imd.refcnt = 1 THEN FREE(r.heap, ImdBlock)
                      ELSE r.heap
    /\ UNCHANGED <<mode, T, pc, out, asserted, ext_refs, nexport, nrelease,
                   iter>>
    /\ UNCHANGED codec_vars

\* put_image_metadata(imd, table)
PutImageMetadata ==
    /\ ImdBlock \in heap.live
    /\ imd.refcnt >= 1
    /\ nput' = nput + 1
    /\ IF imd.refcnt - 1 # 0
       THEN /\ imd' = [imd EXCEPT !.refcnt = @ - 1]
            /\ UNCHANGED <<sd, heap>>
       ELSE LET r == destroy_image_metadata([imd EXCEPT !.refcnt = 0], sd,
                                            desc_arr, heap, TRUE)
            IN  /\ imd' = r.imd
                /\ sd' = r.sd
                /\ heap' = FREE(r.heap, ImdBlock)
    /\ UNCHANGED <<mode, T, pc, out, asserted, ext_refs, nexport, nrelease,
                   iter>>
    /\ UNCHANGED codec_vars

\* A holder other than imd releases its reference to the table.
ReleaseSecurityData ==
    /\ pc = "ok"
    /\ ext_refs > 0
    /\ LET r == free_security_data(SdBlock, sd, desc_arr, heap)
       IN  /\ sd' = r.sd
           /\ heap' = r.heap
    /\ ext_refs' = ext_refs - 1
    /\ nrelease' = nrelease + 1
    /\ UNCHANGED <<mode, T, pc, out, asserted, imd, nexport, nput, iter>>
    /\ UNCHANGED codec_vars

\* ------------------------------------------------ inode and stream lists

\* The lists of imd are sequences of entries, in list order; an entry is a
\* number in 1..MaxInodes or 1..MaxStreams.  HEAD stands for the list head
\* embedded in imd, where a traversal starts and ends.
MaxStreams == 3
MaxInodes  == 1
HEAD == 0

\* What list_del leaves in the links of the entry it has removed.
LIST_POISON == -1

Range(l) == {l[k] : k \in DOMAIN l}

list_add_tail(l, x) == Append(l, x)

list_del(l, x) == SelectSeq(l, LAMBDA y : y # x)

\* x->next, for the head, an entry of the list or a removed entry.
list_next(l, x) ==
    IF x = HEAD THEN (IF l = <<>> THEN HEAD ELSE l[1])
    ELSE IF x \in Range(l)
    THEN LET k == CHOOSE j \in DOMAIN l : l[j] = x
         IN  IF k = Len(l) THEN HEAD ELSE l[k + 1]
    ELSE LIST_POISON

\* The entry a new stream or inode gets.
FreshEntry(l) ==
    IF l = <<>> THEN 1
    ELSE 1 + (CHOOSE x \in Range(l) : \A y \in Range(l) : y <= x)

\* The step of image_for_each_unhashed_stream, which reads lte->next after
\* the body has run.
image_for_each_unhashed_stream(l, lte_next, tmp) ==
    [lte |-> lte_next, tmp |-> tmp]

\* The step of image_for_each_unhashed_stream_safe after the body has run:
\* lte = tmp, tmp = tmp->next.  lte_next is what lte->next would read.
image_for_each_unhashed_stream_safe(l, lte_next, tmp) ==
    [lte |-> tmp, tmp |-> list_next(l, tmp)]

\* The loop from the entry lte on, with a body that removes the visited
\* entry when it is in rm.
RECURSIVE unhashed_stream_loop(_, _, _, _, _)
unhashed_stream_loop(l, lte, tmp, rm, visited) ==
    IF lte = HEAD
    THEN [list |-> l, visited |-> visited, crashed |-> FALSE]
    ELSE IF lte = LIST_POISON
    THEN [list |-> l, visited |-> visited, crashed |-> TRUE]
    ELSE LET l2 == IF lte \in rm THEN list_del(l, lte) ELSE l
             nx == image_for_each_unhashed_stream_safe(l2,
                                                       list_next(l2, lte),
                                                       tmp)
         IN  unhashed_stream_loop(l2, nx.lte, nx.tmp, rm,
                                  Append(visited, lte))

NoIter == [done |-> FALSE, initial |-> <<>>, removed |-> {},
           visited |-> <<>>, final |-> <<>>, crashed |-> FALSE]

\* wimlib_add_image() or wimlib_mount_image() adds a stream that has no
\* digest yet.
AddUnhashedStream ==
    /\ ImdBlock \in heap.live
    /\ FreshEntry(imd.unhashed_streams) <= MaxStreams
    /\ imd' = [imd EXCEPT !.unhashed_streams =
                              list_add_tail(@, FreshEntry(@))]
    /\ UNCHANGED <<mode, T, pc, sd, heap, out, asserted, ext_refs, nexport,
                   nput, nrelease, iter>>
    /\ UNCHANGED codec_vars

\* An inode is added to the image.
AddInode ==
    /\ ImdBlock \in heap.live
    /\ FreshEntry(imd.inode_list) <= MaxInodes
    /\ imd' = [imd EXCEPT !.inode_list = list_add_tail(@, FreshEntry(@))]
    /\ UNCHANGED <<mode, T, pc, sd, heap, out, asserted, ext_refs, nexport,
                   nput, nrelease, iter>>
    /\ UNCHANGED codec_vars

\* The dentry tree is modified in memory.
SetModified ==
    /\ ImdBlock \in heap.live
    /\ imd.root_dentry
    /\ ~imd.modified
    /\ imd' = [imd EXCEPT !.modified = TRUE]
    /\ UNCHANGED <<mode, T, pc, sd, heap, out, asserted, ext_refs, nexport,
                   nput, nrelease, iter>>
    /\ UNCHANGED codec_vars

\* A pass over the unhashed streams with
\* image_for_each_unhashed_stream_safe(lte, tmp, imd), whose body removes
\* the streams of rm from the list when it visits them.
HashUnhashedStreams ==
    /\ ImdBlock \in heap.live
    /\ \E rm \in SUBSET Range(imd.unhashed_streams) :
          LET l     == imd.unhashed_streams
              first == list_next(l, HEAD)
              r     == unhashed_stream_loop(l, first, list_next(l, first),
                                            rm, <<>>)
          IN  /\ imd' = [imd EXCEPT !.unhashed_streams = r.list]
              /\ iter' = [done |-> TRUE, initial |-> l, removed |-> rm,
                          visited |-> r.visited, final |-> r.list,
                          crashed |-> r.crashed]
    /\ UNCHANGED <<mode, T, pc, sd, heap, out, asserted, ext_refs, nexport,
                   nput, nrelease>>
    /\ UNCHANGED codec_vars

\* ----------------------------------------------------------------- inputs

\* 2^29 entries: 8 * num_entries does not fit in 32 bits.
HugeEntries == <<0, Limb \div 8>>

NumEntriesValues == {U32(k) : k \in 0..MaxEntries} \cup {HugeEntries}

SmallSizes == {0, 1, 2}

SizeValues == {U64(k) : k \in SmallSizes \cup {20}}
                  \cup {<<Limb - 16, Limb - 1, Limb - 1, Limb - 1>>, Max64}

\* The sizes arrays an input may carry for a num_entries field.
SizesFor(n) ==
    IF n = HugeEntries
    THEN {<<>>} \cup {<<z>> : z \in SizeValues}
    ELSE [1..ToNat(n) -> SizeValues]

PayloadSeeds == {1, 2}

\* The j-th payload byte of a pattern.
PayloadByte(seed, j) == (seed * 80 + j) % 256

Payload(seed, n) == [j \in 1..n |-> PayloadByte(seed, j)]

RECURSIVE SumNat(_)
SumNat(xs) == IF xs = <<>> THEN 0 ELSE Head(xs) + SumNat(Tail(xs))

\* The total_length fields tried for an input of len bytes holding the
\* sizes zs: too small, the buffer length and its neighbours, the exact
\* length of the table when it is small, and the largest u32.
TotalLengthValues(len, zs) ==
    {U32(0), U32(5), U32(8), U32(len - 1), U32(len), U32(len + 1), Max32}
        \cup (IF \A k \in DOMAIN zs : IsSmall(zs[k])
              THEN {U32(8 + 8 * Len(zs) + SumNat([k \in DOMAIN zs |->
                                                    ToNat(zs[k])]))}
              ELSE {})

\* The bytes of an input with the given fields.
InputBytes(total_length, num_entries, zs, payload) ==
    put_u32(total_length) \o put_u32(num_entries) \o PutSizes(zs) \o payload

\* Consecutive slices of a byte sequence, of the given lengths.
RECURSIVE Slices(_, _)
Slices(bytes, lens) ==
    IF lens = <<>> THEN <<>>
    ELSE <<SubSeq(bytes, 1, Head(lens))>>
             \o Slices(SubSeq(bytes, Head(lens) + 1, Len(bytes)), Tail(lens))

\* The validly constructed tables: len(sizes) = len(descriptors) =
\* num_entries, len(descriptors[i]) = sizes[i],
\* total_length = 8 + 8*num_entries + sum(sizes).
ValidTables ==
    {[total_length |-> U32(8 + 8 * Len(zs) + SumNat(zs)),
      num_entries  |-> U32(Len(zs)),
      sizes        |-> [k \in DOMAIN zs |-> U64(zs[k])],
      descriptors  |-> Slices(Payload(seed, SumNat(zs)), zs)] :
        <<zs, seed>> \in
            {x \in (UNION {[1..n -> SmallSizes] : n \in 0..MaxEntries})
                       \X PayloadSeeds : SumNat(x[1]) <= MaxPayload}}

InitCommon ==
    /\ sd = NoSd
    /\ sizes_arr = <<>>
    /\ desc_arr = <<>>
    /\ desc_bytes = <<>>
    /\ p = 0
    /\ total_len = Zero64
    /\ i = 0
    /\ ret = "none"
    /\ sd_p = NULL
    /\ heap = EmptyHeap
    /\ overflow_logged = FALSE
    /\ refused = FALSE
    /\ oob = FALSE
    /\ out = <<>>
    /\ asserted = "none"
    /\ imd = NoImd
    /\ ext_refs = 0
    /\ nexport = 0
    /\ nput = 0
    /\ nrelease = 0
    /\ iter = NoIter

InitDecode ==
    /\ mode = "decode"
    /\ T = NoTable
    /\ pc = "malloc_sd"
    /\ \E num_entries \in NumEntriesValues :
       \E zs \in SizesFor(num_entries) :
       \E n \in 0..MaxPayload :
       \E seed \in PayloadSeeds :
       \E total_length \in TotalLengthValues(8 + 8 * Len(zs) + n, zs) :
          /\ metadata_resource =
                InputBytes(total_length, num_entries, zs, Payload(seed, n))
          /\ metadata_resource_len = U64(8 + 8 * Len(zs) + n)

InitRoundTrip ==
    /\ mode = "roundtrip"
    /\ T \in ValidTables
    /\ pc = "encode"
    /\ metadata_resource = <<>>
    /\ metadata_resource_len = Zero64

Init == InitCommon /\ (InitDecode \/ InitRoundTrip)

Next ==
    \/ AllocSd
    \/ ReadHeader
    \/ AllocSizes
    \/ AllocDescriptors
    \/ ReadDescriptor
    \/ Out
    \/ OutFreeSd
    \/ WriteSecurityData
    \/ ReadBack
    \/ NewImageMetadata
    \/ AttachMetadata
    \/ ExportImage
    \/ PutImageMetadata
    \/ ReleaseSecurityData

Spec == Init /\ [][Next]_vars

\* The image metadata of one decoded image: a table of two descriptors is
\* decoded and attached, streams and inodes are added, the streams are
\* hashed, and the image is exported and put.
InitMeta ==
    /\ InitCommon
    /\ mode = "decode"
    /\ T = NoTable
    /\ pc = "malloc_sd"
    /\ \E seed \in PayloadSeeds :
          metadata_resource =
              InputBytes(U32(8 + 16 + 3), U32(2), <<U64(1), U64(2)>>,
                         Payload(seed, 3))
    /\ metadata_resource_len = U64(8 + 16 + 3)

NextMeta ==
    \/ AllocSd
    \/ ReadHeader
    \/ AllocSizes
    \/ AllocDescriptors
    \/ ReadDescriptor
    \/ Out
    \/ OutFreeSd
    \/ NewImageMetadata
    \/ AttachMetadata
    \/ AddUnhashedStream
    \/ AddInode
    \/ SetModified
    \/ HashUnhashedStreams
    \/ ExportImage
    \/ PutImageMetadata
    \/ ReleaseSecurityData

SpecMeta == InitMeta /\ [][NextMeta]_vars


\* ----------------------------------------------------------------- claims

\* read_security_data has returned.
Returned == pc \in {"ok", "fail"}

\* read_security_data is past its header checks.
PastHeaderChecks ==
    pc \in {"malloc_sizes", "calloc_descriptors", "loop", "out", "ok",
            "crash"}

\* The fields the input declares in its first 8 bytes.
DeclaredTotalLength == get_u32(metadata_resource, 0)
DeclaredNumEntries  == get_u32(metadata_resource, 4)

\* An input buffer has been handed to read_security_data.
Decoding == Len(metadata_resource) >= 8

\* 8 + 8*n over the mathematical integers (six limbs).
MathHeaderSize(n) ==
    SubSeq(AddC(Wide(U64(8)), Mul(Wide(n), 8), 0), 1, 6)

\* 8 + 8*n + zs[1] + ... + zs[k] over the mathematical integers.
MathAccumulated(n, zs, k) ==
    SubSeq(AddC(MathHeaderSize(n), MathSum(Zero64, SubSeq(zs, 1, k)), 0),
           1, 6)

\* C1: whenever adding sizes[i] to the running total wraps the 64-bit
\* accumulator, read_security_data goes no further and fails with
\* WIMLIB_ERR_INVALID_RESOURCE_SIZE.
C1_OverflowRejected ==
    overflow_logged =>
        /\ pc \in {"out_free_sd", "fail"}
        /\ ret = "INVALID_RESOURCE_SIZE"
        /\ sd_p = NULL

\* C2: when the total_length field of the input exceeds the buffer length,
\* read_security_data never gets past the header checks and, unless the
\* allocator refused the table itself, returns
\* WIMLIB_ERR_INVALID_RESOURCE_SIZE, whatever num_entries is.
C2_BoundsRejection ==
    (Decoding /\ Lt(metadata_resource_len, ToU64(DeclaredTotalLength))) =>
        /\ ~PastHeaderChecks
        /\ pc # "out"
        /\ (Returned /\ ~refused) => ret = "INVALID_RESOURCE_SIZE"

C2_Witness ==
    /\ pc = "fail"
    /\ ret = "INVALID_RESOURCE_SIZE"
    /\ Lt(metadata_resource_len, ToU64(DeclaredTotalLength))
    /\ DeclaredNumEntries = Zero32

\* C3: with num_entries = N > 0 and total_length < 8 + 8*N (computed
\* without wrapping), read_security_data fails with
\* WIMLIB_ERR_INVALID_RESOURCE_SIZE (unless the allocator refused the table
\* itself) and has read no entry of the sizes array.
C3_UndersizedHeader ==
    (Decoding /\ DeclaredNumEntries # Zero32
        /\ Lt(Wide(DeclaredTotalLength), MathHeaderSize(DeclaredNumEntries)))
    =>  /\ ~PastHeaderChecks
        /\ sizes_arr = <<>>
        /\ p <= 8
        /\ (Returned /\ ~refused) => ret = "INVALID_RESOURCE_SIZE"

C3_Witness ==
    /\ pc = "fail"
    /\ ret = "INVALID_RESOURCE_SIZE"
    /\ DeclaredNumEntries = HugeEntries
    /\ Le(ToU64(DeclaredTotalLength), metadata_resource_len)
    /\ Le(U32(8), DeclaredTotalLength)

\* The first entry (counted from 1) at which the accumulated length
\* 8 + 8*num_entries + sizes[0] + ... exceeds total_length; 0 when none.
FirstOverrun(total_length, n, zs) ==
    LET over == {k \in DOMAIN zs :
                    Lt(Wide(total_length), MathAccumulated(n, zs, k))}
    IN  IF over = {} THEN 0
        ELSE CHOOSE k \in over : \A m \in over : k <= m

\* C4: for an input that passed the header checks, if the accumulated
\* length 8 + 8*num_entries + sizes[0] + ... + sizes[i] exceeds total_length
\* for some i, read_security_data fails with
\* WIMLIB_ERR_INVALID_RESOURCE_SIZE at the first such i (unless the
\* allocator refused a request it could serve) and copies neither
\* descriptor i nor a later one.
C4_OverrunRejected ==
    LET k == FirstOverrun(DeclaredTotalLength, DeclaredNumEntries,
                          sizes_arr)
    IN  (sizes_arr # <<>> /\ k # 0) =>
            /\ Len(desc_bytes) < k
            /\ pc # "out"
            /\ (Returned /\ ~refused) => ret = "INVALID_RESOURCE_SIZE"


\* C5: an input with num_entries = 0 whose total_length field does not
\* exceed the buffer length decodes successfully (unless the allocator
\* refused the table itself) to a table with no entries, no sizes, no
\* descriptors and total_length = 8, whatever total_length it declared.
C5_ZeroEntryCanonical ==
    (Decoding /\ Returned /\ ~refused /\ DeclaredNumEntries = Zero32
        /\ Le(ToU64(DeclaredTotalLength), metadata_resource_len))
    =>  /\ ret = "OK"
        /\ sd_p = SdBlock
        /\ Table = [NoTable EXCEPT !.total_length = U32(8)]
        /\ sd.sizes = NULL
        /\ sd.descriptors = NULL

C5_Witness ==
    /\ pc = "ok"
    /\ DeclaredNumEntries = Zero32
    /\ DeclaredTotalLength = U32(5)
    /\ sd.total_length = U32(8)

\* C6: every table a successful decode returns has
\* total_length = 8 + 8*num_entries + sum(sizes), the sum taken over the
\* mathematical integers, also when the input declared a larger
\* total_length; sizes and descriptors have num_entries elements and
\* descriptor i has sizes[i] bytes.
C6_LengthInvariant ==
    pc = "ok" =>
        /\ Wide(sd.total_length) =
              MathAccumulated(sd.num_entries, sizes_arr, Len(sizes_arr))
        /\ U32(Len(sizes_arr)) = sd.num_entries
        /\ Len(desc_bytes) = Len(sizes_arr)
        /\ \A k \in DOMAIN sizes_arr : U64(Len(desc_bytes[k])) = sizes_arr[k]
        /\ Le(sd.total_length, DeclaredTotalLength)
              \/ DeclaredNumEntries = Zero32

\* A table with entries was repaired: the input declared more than it held.
C6_Witness ==
    /\ pc = "ok"
    /\ mode = "decode"
    /\ sd.num_entries = U32(2)
    /\ sizes_arr # <<U64(0), U64(0)>>
    /\ Lt(sd.total_length, DeclaredTotalLength)

\* C7: encoding a validly constructed table T and decoding the bytes with
\* length = T.total_length succeeds (unless the allocator refused a
\* request) and yields T: the same num_entries, sizes, descriptor bytes and
\* total_length.
C7_RoundTrip ==
    (mode = "roundtrip" /\ Returned /\ ~refused) =>
        /\ ret = "OK"
        /\ Table = T

C7_Witness ==
    /\ mode = "roundtrip"
    /\ pc = "ok"
    /\ T.sizes = <<U64(1), U64(2)>>
    /\ Table = T

RECURSIVE Flatten(_)
Flatten(seqs) ==
    IF seqs = <<>> THEN <<>> ELSE Head(seqs) \o Flatten(Tail(seqs))

\* C8: for a table a successful decode returned, write_security_data writes
\* total_length, num_entries, the sizes in index order and the descriptors
\* in index order, total_length bytes in all, and its assertion holds.
C8_EncodeLength ==
    /\ asserted # "fail"
    /\ (mode = "decode" /\ asserted = "pass") =>
          /\ out = put_u32(sd.total_length) \o put_u32(sd.num_entries)
                     \o Flatten([k \in DOMAIN sizes_arr |->
                                   put_u64(sizes_arr[k])])
                     \o Flatten(desc_bytes)
          /\ U32(Len(out)) = sd.total_length

C8_Witness ==
    /\ mode = "decode"
    /\ asserted = "pass"
    /\ sd.num_entries = U32(2)
    /\ Len(out) = 8 + 16 + 3

\* C9: when read_security_data fails, *sd_p is not written and every block
\* allocated so far (the struct, sizes, the descriptor array, each
\* descriptor copied) has been freed exactly once; no block is ever freed
\* twice.
C9_CleanFailure ==
    /\ \A b \in Blocks : heap.nfree[b] <= 1
    /\ pc = "fail" =>
          /\ ret \in {"INVALID_RESOURCE_SIZE", "NOMEM"}
          /\ sd_p = NULL
          /\ heap.live = {}
          /\ sd.refcnt = 1 => heap.nfree[SdBlock] = 1
          /\ sd.sizes # NULL => heap.nfree[sd.sizes] = 1
          /\ sd.descriptors # NULL => heap.nfree[sd.descriptors] = 1
          /\ \A k \in DOMAIN desc_arr : heap.nfree[desc_arr[k]] = 1

\* The second descriptor could not be allocated after the first was copied.
C9_Witness ==
    /\ pc = "fail"
    /\ ret = "NOMEM"
    /\ Len(desc_arr) = 1
    /\ heap.nfree[DescBlock(0)] = 1
    /\ heap.nfree[SizesBlock] = 1
    /\ heap.nfree[DescsBlock] = 1
    /\ heap.nfree[SdBlock] = 1

\* The table's storage is wholly live.
TableIntact ==
    /\ {SdBlock, sd.sizes, sd.descriptors} \ {NULL} \subseteq heap.live
    /\ \A k \in DOMAIN desc_arr : desc_arr[k] \in heap.live

\* An image metadata with refcnt = 2 referencing a table with refcnt = 2
\* (one export, no other release), after one put and after two.
AfterFirstPut  == nexport = 1 /\ nrelease = 0 /\ nput = 1
AfterSecondPut == nexport = 1 /\ nrelease = 0 /\ nput = 2

\* C10 as stated: the first put_image_metadata decrements both reference
\* counts to 1 and 1 and leaves both objects intact; the second tears down
\* the image metadata and the table.
C10_RefcountSharing_AsStated ==
    /\ AfterFirstPut =>
          /\ imd.refcnt = 1 /\ sd.refcnt = 1
          /\ ImdBlock \in heap.live /\ TableIntact
    /\ AfterSecondPut =>
          /\ ImdBlock \notin heap.live
          /\ SdBlock \notin heap.live

\* C10 amended: the first put_image_metadata decrements imd.refcnt to 1,
\* leaves the table's refcnt at 2 and both objects intact; the second
\* tears down the image metadata and releases its one reference to the
\* table, which stays intact with refcnt = 1.
C10_RefcountSharing ==
    /\ AfterFirstPut =>
          /\ imd.refcnt = 1 /\ sd.refcnt = 2
          /\ imd.security_data = SdBlock /\ imd.root_dentry
          /\ ImdBlock \in heap.live /\ TableIntact
    /\ AfterSecondPut =>
          /\ imd.refcnt = 0
          /\ ImdBlock \notin heap.live /\ heap.nfree[ImdBlock] = 1
          /\ ~imd.root_dentry /\ imd.security_data = NULL
          /\ sd.refcnt = 1 /\ TableIntact

C10_Witness ==
    /\ AfterSecondPut
    /\ ImdBlock \notin heap.live
    /\ sd.refcnt = 1
    /\ sd.num_entries = U32(2)
    /\ TableIntact


\* The references to the table that exist (one from its creation, one per
\* export), those not yet released, and the releases made so far.
Shares      == 1 + nexport
Outstanding == ext_refs + (IF imd.security_data # NULL THEN 1 ELSE 0)
Releases    == Shares - Outstanding

\* The blocks of the table: the struct, sizes, the descriptor array and
\* each descriptor buffer.
TableBlocks ==
    ({SdBlock, sd.sizes, sd.descriptors} \ {NULL})
        \cup {desc_arr[k] : k \in DOMAIN desc_arr}

\* C12: a table created with refcnt = 1 and shared k-1 times is freed by
\* its k-th release and not before: until then each release has only
\* decremented refcnt and the table is intact with none of its blocks
\* freed; after it the struct, the sizes array, the descriptor array and
\* every descriptor buffer have been freed exactly once.  Releasing a NULL
\* table changes nothing.
C12_TableLifecycle ==
    pc = "ok" =>
        /\ Releases \in 0..Shares
        /\ Releases < Shares =>
              /\ sd.refcnt = Shares - Releases
              /\ TableIntact
              /\ \A b \in TableBlocks : heap.nfree[b] = 0
              /\ sd.num_entries = DeclaredNumEntries
              /\ U32(Len(sizes_arr)) = sd.num_entries
              /\ sizes_arr =
                    ReadSizes(metadata_resource, 8, Len(sizes_arr))
              /\ Len(desc_bytes) = Len(sizes_arr)
              /\ Flatten(desc_bytes) =
                    get_bytes(metadata_resource, 8 + 8 * Len(sizes_arr),
                              p - 8 - 8 * Len(sizes_arr))
        /\ Releases = Shares =>
              /\ TableBlocks \cap heap.live = {}
              /\ \A b \in TableBlocks : heap.nfree[b] = 1
        /\ (heap.nfree[ImdBlock] = 1 /\ ext_refs = 1 /\ nrelease = 0
               /\ nexport = 0) =>
              /\ sd.refcnt = 1
              /\ TableIntact

\* A table with two descriptors, shared twice, after its third release.
C12_Witness ==
    /\ pc = "ok"
    /\ Shares = 3
    /\ Releases = 3
    /\ Len(desc_arr) = 2
    /\ SdBlock \notin heap.live
    /\ heap.nfree[DescBlock(1)] = 1

\* C14 as stated: every read (the header, the sizes array, each
\* descriptor) ends at a cursor that is at most total_length, which is at
\* most the buffer length.
C14_NoOutOfBoundsRead_AsStated ==
    /\ ~oob
    /\ p > 0 =>
          /\ Le(U64(p), ToU64(DeclaredTotalLength))
          /\ Le(ToU64(DeclaredTotalLength), metadata_resource_len)

\* C14 amended: no read goes past the end of the buffer; the header read
\* ends at offset 8, within the buffer, and every read of the sizes array
\* or of a descriptor ends at a cursor that is at most total_length, which
\* is at most the buffer length.
C14_NoOutOfBoundsRead ==
    /\ ~oob
    /\ pc # "crash"
    /\ p > 0 => (p >= 8 /\ Le(U64(p), metadata_resource_len))
    /\ p > 8 =>
          /\ Le(U64(p), ToU64(DeclaredTotalLength))
          /\ Le(ToU64(DeclaredTotalLength), metadata_resource_len)

\* Two descriptors were read, the last one ending at the end of the buffer.
C14_Witness ==
    /\ pc = "ok"
    /\ mode = "decode"
    /\ Len(desc_bytes) = 2
    /\ Len(desc_bytes[2]) = 2
    /\ p = Len(metadata_resource)

\* The accumulated length fits in 32 bits.
Fits32(x) == x[3] = 0 /\ x[4] = 0

\* C15 as stated: on success the final accumulated length is at most the
\* total_length field read from the input, hence at most 2^32 - 1, and is
\* stored without truncation.
C15_LosslessNarrowing_AsStated ==
    pc \in {"out", "ok"} =>
        /\ Fits32(total_len)
        /\ Le(total_len, ToU64(DeclaredTotalLength))
        /\ pc = "ok" => ToU64(sd.total_length) = total_len

\* C15 amended: on success the final accumulated length is 8 when
\* num_entries = 0 and otherwise at most the total_length field read from
\* the input; in both cases it is at most 2^32 - 1 and is stored without
\* truncation.
C15_LosslessNarrowing ==
    pc \in {"out", "ok"} =>
        /\ Fits32(total_len)
        /\ IF DeclaredNumEntries = Zero32
           THEN total_len = U64(8)
           ELSE Le(total_len, ToU64(DeclaredTotalLength))
        /\ pc = "ok" => ToU64(sd.total_length) = total_len

\* Two descriptors of 1 and 2 bytes were decoded: 8 + 16 + 3 bytes.
C15_Witness ==
    /\ pc = "ok"
    /\ mode = "decode"
    /\ sd.num_entries = U32(2)
    /\ total_len = U64(8 + 16 + 3)
    /\ Le(total_len, ToU64(DeclaredTotalLength))


\* C11: a put_image_metadata that finds imd.refcnt greater than 1
\* decrements it by one and changes nothing else: the root, the table
\* pointer, the resource reference, inode_list, unhashed_streams and
\* modified keep their values, and the table, its refcnt and the heap are
\* untouched.  Only the call that takes imd.refcnt to zero tears the image
\* metadata down and releases its reference to the table.
C11_NonFinalPutFrame ==
    [][ nput' = nput + 1 =>
          IF imd.refcnt > 1
          THEN /\ imd' = [imd EXCEPT !.refcnt = @ - 1]
               /\ sd' = sd
               /\ heap' = heap
               /\ sizes_arr' = sizes_arr
               /\ desc_arr' = desc_arr
               /\ desc_bytes' = desc_bytes
               /\ ext_refs' = ext_refs
          ELSE /\ imd'.refcnt = 0
               /\ ImdBlock \notin heap'.live
               /\ imd'.security_data = NULL
               /\ imd.security_data # NULL =>
                     IF sd.refcnt > 1
                     THEN sd' = [sd EXCEPT !.refcnt = @ - 1]
                     ELSE SdBlock \notin heap'.live
      ]_vars

\* After a non-final put: the image metadata is still shared or held, with
\* its lists, its flag and its table as they were.
C11_Witness ==
    /\ nput = 1
    /\ nexport = 2
    /\ imd.refcnt = 2
    /\ ImdBlock \in heap.live
    /\ imd.unhashed_streams # <<>>
    /\ imd.inode_list # <<>>
    /\ imd.modified
    /\ imd.root_dentry
    /\ imd.security_data = SdBlock
    /\ sd.refcnt = 3
    /\ TableIntact

\* C13: a pass with image_for_each_unhashed_stream_safe whose body removes
\* any subset of the entries, each when it is visited, visits every entry
\* of the initial list once, in list order, and leaves in the list the
\* entries that were not removed, in their original order.
C13_RemovalSafeIteration ==
    iter.done =>
        /\ ~iter.crashed
        /\ iter.visited = iter.initial
        /\ iter.final =
              SelectSeq(iter.initial, LAMBDA x : x \notin iter.removed)

\* A pass over three entries that removed the first two.
C13_Witness ==
    /\ iter.done
    /\ Len(iter.initial) = 3
    /\ iter.removed = {iter.initial[1], iter.initial[2]}
    /\ iter.final = <<iter.initial[3]>>
    /\ imd.unhashed_streams = iter.final

=============================================================================
